---- MODULE Spec2Model ----
(***************************************************************************)
(* A model of the match ticket uploader (src/src/main.rs and               *)
(* src/src/ticket.rs): the upload_match handler, Ticket::render,           *)
(* Ticket::make_token, download_image and calculate_hash, together with    *)
(* the local filesystem they share and the storage client they call.       *)
(***************************************************************************)
EXTENDS Integers, Sequences, FiniteSets, TLC

(***************************************************************************)
(* State.  One task per request; a task runs without interruption between  *)
(* its await points (the two downloads and the two storage adds).          *)
(***************************************************************************)
VARIABLES
  pc,          \* pc[r]: where request r's task is
  ticket,      \* ticket[r]: the request's deserialized Ticket
  local,       \* local[r]: the task's local variables so far (a record)
  response,    \* response[r]: the response body sent, or NoResponse
  fs,          \* the working directory: file name -> content
  ipfs_log,    \* history: the adds the storage client completed
  created,     \* history: created[r], the names of the files r has written
  last_ops,    \* history: the file operations of the last step, in order
  ran_after    \* history: ran_after[r], the requests over when r arrived

vars ==
  << pc, ticket, local, response, fs, ipfs_log, created, last_ops, ran_after >>

(***************************************************************************)
(* 64-bit unsigned integers.  TLC's integers are 32 bits wide, so a u64 is *)
(* kept as five limbs in base 10000, most significant limb first:          *)
(*   <<a, b, c, d, e>>  stands for  a*10^16 + b*10^12 + c*10^8 + d*10^4 + e*)
(***************************************************************************)
Limb == 0..9999

\* The limbs of a small natural number n (n below 2^31).
U64(n) ==
  << 0, 0, n \div 100000000, (n \div 10000) % 10000, n % 10000 >>

\* 2^63 and 2^64 in limbs.
Two63 == << 922, 3372, 368, 5477, 5808 >>
Two64 == << 1844, 6744, 737, 955, 1616 >>

RECURSIVE LimbsLessFrom(_, _, _)
LimbsLessFrom(a, b, i) ==
  IF i > Len(a) THEN FALSE
  ELSE IF a[i] # b[i] THEN a[i] < b[i]
  ELSE LimbsLessFrom(a, b, i + 1)

\* a < b, as numbers
LimbsLess(a, b) == LimbsLessFrom(a, b, 1)

RECURSIVE LimbsSubFrom(_, _, _, _)
LimbsSubFrom(a, b, i, borrow) ==
  IF i = 0 THEN << >>
  ELSE LET d == a[i] - b[i] - borrow
       IN  LimbsSubFrom(a, b, i - 1, IF d < 0 THEN 1 ELSE 0)
             \o << IF d < 0 THEN d + 10000 ELSE d >>

\* a - b, for a >= b
LimbsSub(a, b) == LimbsSubFrom(a, b, Len(a), 0)

RECURSIVE LimbsDivFrom(_, _, _, _)
LimbsDivFrom(a, d, i, rem) ==
  IF i > Len(a) THEN [q |-> << >>, r |-> rem]
  ELSE LET cur  == rem * 10000 + a[i]
           rest == LimbsDivFrom(a, d, i + 1, cur % d)
       IN  [q |-> << cur \div d >> \o rest.q, r |-> rest.r]

\* quotient (in limbs) and remainder of a by a small divisor d (d < 200000)
LimbsDiv(a, d) == LimbsDivFrom(a, d, 1, 0)

\* The value of limbs as an integer, when it is below 2^31.
LimbsFitI32(q) ==
  /\ q[1] = 0
  /\ q[2] = 0
  /\ \/ q[3] < 21
     \/ q[3] = 21 /\ q[4] * 10000 + q[5] <= 47483647

LimbsToInt(q) == q[3] * 100000000 + q[4] * 10000 + q[5]

(***************************************************************************)
(* Decimal formatting, as Rust's Display for integers and chrono's padded  *)
(* numeric items do it.                                                    *)
(***************************************************************************)
Digit(d) ==
  CASE d = 0 -> "0" [] d = 1 -> "1" [] d = 2 -> "2" [] d = 3 -> "3"
    [] d = 4 -> "4" [] d = 5 -> "5" [] d = 6 -> "6" [] d = 7 -> "7"
    [] d = 8 -> "8" [] d = 9 -> "9"

RECURSIVE Dec(_)
\* a natural number in decimal, no padding ("{}")
Dec(n) == IF n < 10 THEN Digit(n) ELSE Dec(n \div 10) \o Digit(n % 10)

RECURSIVE Zeros(_)
Zeros(k) == IF k <= 0 THEN "" ELSE "0" \o Zeros(k - 1)

\* a natural number in decimal, zero-padded to at least w characters
Pad(n, w) == Zeros(w - Len(Dec(n))) \o Dec(n)

RECURSIVE U64PaddedFrom(_, _)
U64PaddedFrom(v, j) ==
  IF j > Len(v) THEN "" ELSE Pad(v[j], 4) \o U64PaddedFrom(v, j + 1)

RECURSIVE U64DecFrom(_, _)
U64DecFrom(v, i) ==
  IF i = Len(v) THEN Dec(v[i])
  ELSE IF v[i] = 0 THEN U64DecFrom(v, i + 1)
  ELSE Dec(v[i]) \o U64PaddedFrom(v, i + 1)

\* format!("{}", v) for a u64 v
U64Dec(v) == U64DecFrom(v, 1)

(***************************************************************************)
(* Ticket, Team and TicketStatus (ticket.rs 39-64).  A status is           *)
(* [tag |-> "active"] or [tag |-> "finished", f_0 |-> u64, f_1 |-> u64],   *)
(* where f_0 and f_1 are the fields _0 and _1 of the source.               *)
(***************************************************************************)
Team(name, logo_url) == [name |-> name, logo_url |-> logo_url]

Active == [tag |-> "active"]

Finished(home, away) == [tag |-> "finished", f_0 |-> home, f_1 |-> away]

Ticket(id, host_team, guest_team, date, status) ==
  [id |-> id, host_team |-> host_team, guest_team |-> guest_team,
   date |-> date, status |-> status]

(***************************************************************************)
(* The timestamp conversion of render and make_token:                      *)
(*   NaiveDateTime::from_timestamp_opt(self.date as i64, 0)                *)
(*     .map(|time| DateTime::<Utc>::from_utc(time, Utc)                    *)
(*                   .format("%Y-%m-%d %H:%M").to_string())                *)
(***************************************************************************)
\* `date as i64`: two's complement reinterpretation of a u64, kept as a sign
\* and a magnitude in limbs (a u64 of 2^63 or more is the negative number
\* v - 2^64).
AsI64(v) ==
  IF LimbsLess(v, Two63) THEN [neg |-> FALSE, mag |-> v]
  ELSE [neg |-> TRUE, mag |-> LimbsSub(Two64, v)]

\* secs.div_euclid(86_400) and secs.rem_euclid(86_400); the day count is
\* given only when it fits 32 bits (days.to_i32()).
SplitSeconds(secs) ==
  LET dr == LimbsDiv(secs.mag, 86400)
  IN  IF ~LimbsFitI32(dr.q) THEN [ok |-> FALSE]
      ELSE IF ~secs.neg
        THEN [ok |-> TRUE, days |-> LimbsToInt(dr.q), sod |-> dr.r]
      ELSE IF dr.r = 0
        THEN [ok |-> TRUE, days |-> -LimbsToInt(dr.q), sod |-> 0]
      ELSE IF LimbsToInt(dr.q) = 2147483647 THEN [ok |-> FALSE]
        ELSE [ok |-> TRUE, days |-> -LimbsToInt(dr.q) - 1, sod |-> 86400 - dr.r]

\* The proleptic Gregorian date of a day count relative to 1970-01-01.
CivilFromDays(days) ==
  LET z   == days + 719468
      era == z \div 146097
      doe == z - era * 146097
      yoe == (doe - doe \div 1460 + doe \div 36524 - doe \div 146096) \div 365
      doy == doe - (365 * yoe + yoe \div 4 - yoe \div 100)
      mp  == (5 * doy + 2) \div 153
      d   == doy - (153 * mp + 2) \div 5 + 1
      m   == IF mp < 10 THEN mp + 3 ELSE mp - 9
      y   == yoe + era * 400 + (IF m <= 2 THEN 1 ELSE 0)
  IN  [year |-> y, month |-> m, day |-> d]

\* NaiveDateTime::from_timestamp_opt(secs, 0): None when the day is outside
\* the years chrono's NaiveDate holds (-262144 ..= 262143).
FromTimestampOpt(secs) ==
  LET s == SplitSeconds(secs)
  IN  IF ~s.ok THEN [some |-> FALSE]
      ELSE IF s.days < -100000000 \/ s.days > 100000000 THEN [some |-> FALSE]
      ELSE LET c == CivilFromDays(s.days)
           IN  IF c.year < -262144 \/ c.year > 262143 THEN [some |-> FALSE]
               ELSE [some |-> TRUE, year |-> c.year, month |-> c.month,
                     day |-> c.day, hour |-> s.sod \div 3600,
                     minute |-> (s.sod % 3600) \div 60,
                     second |-> s.sod % 60]

\* chrono's %Y: four digits, zero padded; a year outside 0..9999 carries an
\* explicit sign.
FormatYear(y) ==
  IF y >= 0 /\ y < 10000 THEN Pad(y, 4)
  ELSE IF y < 0 THEN "-" \o Pad(-y, 4)
  ELSE "+" \o Pad(y, 4)

\* date.format("%Y-%m-%d %H:%M").to_string()
FormatDate(t) ==
  FormatYear(t.year) \o "-" \o Pad(t.month, 2) \o "-" \o Pad(t.day, 2)
    \o " " \o Pad(t.hour, 2) \o ":" \o Pad(t.minute, 2)

\* The whole expression up to, not including, .expect("should be valid
\* timestamp"): Some(text) or None.
DateText(date) ==
  LET t == FromTimestampOpt(AsI64(date))
  IN  IF t.some THEN [some |-> TRUE, text |-> FormatDate(t)]
      ELSE [some |-> FALSE]

\* render, lines 84-87
render_score(self) ==
  IF self.status.tag = "finished"
    THEN U64Dec(self.status.f_0) \o " - " \o U64Dec(self.status.f_1)
    ELSE "0 - 0"

\* (the format with seconds, "%Y-%m-%d %H:%M:%S")
render_date_with_seconds(self) ==
  LET t == FromTimestampOpt(AsI64(self.date))
  IN  IF t.some
        THEN [some |-> TRUE, text |-> FormatDate(t) \o ":" \o Pad(t.second, 2)]
        ELSE [some |-> FALSE]

\* render, lines 89-95
render_date(self) == DateText(self.date)

\* (home and away scores exchanged)
make_token_score_swapped(self) ==
  IF self.status.tag = "finished"
    THEN U64Dec(self.status.f_1) \o " - " \o U64Dec(self.status.f_0)
    ELSE "0 - 0"

\* make_token, lines 178-181
make_token_score(self) ==
  IF self.status.tag = "finished"
    THEN U64Dec(self.status.f_0) \o " - " \o U64Dec(self.status.f_1)
    ELSE "0 - 0"

\* make_token, lines 183-189
make_token_date(self) == DateText(self.date)

(***************************************************************************)
(* Constants of ticket.rs and main.rs.                                     *)
(***************************************************************************)
IMAGE_HEIGHT == 1024
IMAGE_WIDTH == 2048
IMAGE_MAX_HEIGHT == 512
IMAGE_MAX_WIDTH == 384
SCORE_FONT_SIZE == 256
SCORE_FONT_SIZE_PIXELS == SCORE_FONT_SIZE \div 7
DATE_FONT_SIZE == 64

Null == [json |-> "null"]

TOKEN_JSON ==
  [image |-> "", name |-> "", description |-> "",
   external_link |-> Null, animation_url |-> Null, traits |-> << >>]

\* format!("https://ipfs.io/ipfs/{}", hash), main.rs 47 and 60
GatewayUrl(hash) == "https://ipfs.io/ipfs/" \o hash

(***************************************************************************)
(* calculate_hash (ticket.rs 240-246): DefaultHasher with its fixed keys,  *)
(* a pure function of the hashed value.  The 64-bit digest is kept as the  *)
(* value it was computed from, so equal values have equal digests and      *)
(* (collisions of the hash aside) different values have different ones.    *)
(* Byte strings are [bytes |-> ...], whether Bytes or Vec<u8>.             *)
(***************************************************************************)
\* (a hasher keyed per use, as RandomState keys one, in place of the fixed
\* keys of DefaultHasher::new())
calculate_hash_keyed_per_use(t) ==
  [digest_of |-> t, keys |-> Cardinality(ipfs_log)]

calculate_hash(t) == [digest_of |-> t]

Bytes(b) == [bytes |-> b]

\* format!("{}.png", ...) and format!("{}.json", ...)
PngName(digest) == [stem |-> digest, ext |-> ".png"]

JsonName(digest) == [stem |-> digest, ext |-> ".json"]

(***************************************************************************)
(* The local filesystem (the process's working directory): a function from *)
(* the names of the files that exist to their contents.                    *)
(***************************************************************************)
FileExists(files, name) == name \in DOMAIN files

\* fs::write, File::create + write_all, image.save: create or truncate
WriteFile(files, name, content) ==
  [n \in DOMAIN files \cup {name} |-> IF n = name THEN content ELSE files[n]]

\* fs::remove_file, when the file exists
RemoveFile(files, name) == [n \in DOMAIN files \ {name} |-> files[n]]

(***************************************************************************)
(* Logo bodies.  ImageReader::open(path).decode() gives the raster's size  *)
(* or fails on bytes that are no image.                                    *)
(***************************************************************************)
Decode(content) ==
  CASE content = Bytes("png1") -> [ok |-> TRUE, width |-> 100, height |-> 100]
    [] content = Bytes("png2") -> [ok |-> TRUE, width |-> 500, height |-> 600]
    [] OTHER -> [ok |-> FALSE]

\* a - b on u32 values (a and b below 2^31 in this model).  When b > a
\* the subtraction overflows: a build with overflow checks panics there, a
\* build without them goes on with 2^32 - (b - a), given here as its two
\* 16-bit halves.
U32Sub(a, b) ==
  IF a >= b
    THEN [overflow |-> FALSE, value |-> a - b]
    ELSE [overflow |-> TRUE,
          wrapped |-> << 65535 - ((b - a - 1) \div 65536),
                         65535 - ((b - a - 1) % 65536) >>]

\* render 101-120: the home logo's position and the size it is resized to
HomePlacement(logo) ==
  [x |-> IMAGE_WIDTH \div 12,
   y |-> U32Sub(IMAGE_HEIGHT \div 2, logo.height \div 2),
   w |-> IF logo.width > IMAGE_MAX_WIDTH THEN IMAGE_MAX_WIDTH ELSE logo.width,
   h |-> IF logo.height > IMAGE_MAX_HEIGHT THEN IMAGE_MAX_HEIGHT
         ELSE logo.height]

\* (the guest logo placed at its own size, with no resize)
GuestPlacement_unclamped(logo) ==
  [x |-> U32Sub(IMAGE_WIDTH - (IMAGE_WIDTH \div 12), logo.width),
   y |-> U32Sub(IMAGE_HEIGHT \div 2, logo.height \div 2),
   w |-> logo.width,
   h |-> logo.height]

\* render 143-162: the guest logo's position and the size it is resized to
GuestPlacement(logo) ==
  [x |-> U32Sub(IMAGE_WIDTH - (IMAGE_WIDTH \div 12), logo.width),
   y |-> U32Sub(IMAGE_HEIGHT \div 2, logo.height \div 2),
   w |-> IF logo.width > IMAGE_MAX_WIDTH THEN IMAGE_MAX_WIDTH ELSE logo.width,
   h |-> IF logo.height > IMAGE_MAX_HEIGHT THEN IMAGE_MAX_HEIGHT
         ELSE logo.height]

\* render 122-131: the score text's position
ScorePosition(score) ==
  [x |-> U32Sub(IMAGE_WIDTH \div 2, Len(score) * SCORE_FONT_SIZE_PIXELS),
   y |-> IMAGE_HEIGHT \div 2 - SCORE_FONT_SIZE]

\* render 133-141: the date text's position
DatePosition == [x |-> IMAGE_WIDTH \div 2 - 200, y |-> IMAGE_HEIGHT \div 2]

\* render 97-166: the canvas that image.save writes, given the contents of
\* the two logo files, their decoded sizes and the two texts
ComposedImage(home_content, guest_content, home_logo, guest_logo, score, date) ==
  [width |-> IMAGE_WIDTH, height |-> IMAGE_HEIGHT,
   home |-> [picture |-> home_content, at |-> HomePlacement(home_logo)],
   guest |-> [picture |-> guest_content, at |-> GuestPlacement(guest_logo)],
   score |-> [text |-> score, size |-> SCORE_FONT_SIZE,
              at |-> ScorePosition(score)],
   date |-> [text |-> date, size |-> DATE_FONT_SIZE, at |-> DatePosition]]

\* render 164
ImageName(self) == PngName(calculate_hash(self))

\* download_image 232
LogoName(body) == PngName(calculate_hash(body))

\* make_token 191-197
TokenDescription(self, date, score) ==
  "The match between " \o self.host_team.name \o " and "
    \o self.guest_team.name \o " took place on " \o date
    \o ". The final score was " \o score

\* make_token 199
TokenName(self) ==
  self.host_team.name \o " vs " \o self.guest_team.name \o " ticket"

\* (the name and description of an earlier build kept, as when the fields
\* were set on the shared template instead of on a clone of it and only
\* the image set anew)
RawToken_on_used_template(self, image_uri, date, score) ==
  IF \E q \in DOMAIN local : "raw_token" \in DOMAIN local[q]
    THEN [local[CHOOSE q \in DOMAIN local : "raw_token" \in DOMAIN local[q]]
            .raw_token EXCEPT !.image = image_uri]
    ELSE [TOKEN_JSON EXCEPT !.image = image_uri,
                            !.name = TokenName(self),
                            !.description = TokenDescription(self, date, score)]

\* make_token 201-205: the template's clone with three fields set
RawToken(self, image_uri, date, score) ==
  [TOKEN_JSON EXCEPT !.image = image_uri,
                     !.name = TokenName(self),
                     !.description = TokenDescription(self, date, score)]

\* serde_json::to_vec of the token value (make_token 207): an object with
\* its keys in serde_json's map order (sorted), strings quoted.  The names
\* of this model hold no character that JSON escapes.
Quoted(str) == "\"" \o str \o "\""

SerializeToken(raw_token) ==
  Bytes("{" \o Quoted("animation_url") \o ":" \o "null"
        \o "," \o Quoted("description") \o ":" \o Quoted(raw_token.description)
        \o "," \o Quoted("external_link") \o ":" \o "null"
        \o "," \o Quoted("image") \o ":" \o Quoted(raw_token.image)
        \o "," \o Quoted("name") \o ":" \o Quoted(raw_token.name)
        \o "," \o Quoted("traits") \o ":" \o "[]" \o "}")

\* make_token 210
TokenFileName(token) == JsonName(calculate_hash(token))

(***************************************************************************)
(* Bounds of the model.                                                    *)
(***************************************************************************)
NumRequests == 2

Requests == 1..NumRequests

TeamA == Team("A", "http://logos/a.png")

TeamB == Team("B", "http://logos/b.png")

\* the tickets a request may carry: a finished match, an active one, and a
\* ticket whose date (2^63) chrono cannot represent
Tickets ==
  { Ticket("m1", TeamA, TeamB, U64(1700000000), Finished(U64(2), U64(2))),
    Ticket("m2", TeamB, TeamA, U64(1700000000), Active),
    Ticket("m3", TeamA, TeamB, Two63, Finished(U64(3), U64(1))) }

\* what a logo URL may answer: two images and a body that is no image
LogoBodies == { Bytes("png1"), Bytes("png2"), Bytes("junk") }

\* the bodies a logo URL may send with a 404 status
NotFoundBodies == { Bytes("png1") }

\* reqwest::get(url).await and response.bytes().await: a transport error, or
\* a response of any status with its body (download_image never looks at
\* the status, and reqwest::get gives Ok for every status)
FetchOutcomes ==
  { [ok |-> FALSE] }
    \cup { [ok |-> TRUE, status |-> 200, body |-> b] : b \in LogoBodies }
    \cup { [ok |-> TRUE, status |-> 404, body |-> b] : b \in NotFoundBodies }

\* the content addresses the storage service may answer
Hashes == { "Qmtest", "QmOther" }

\* ipfs_client.add(file).await: an error (which carries no address), or the
\* response with its content address (result.hash)
AddOutcomes ==
  { [ok |-> FALSE, hash |-> ""] } \cup { [ok |-> TRUE, hash |-> h] : h \in Hashes }

NoResponse == [none |-> TRUE]

NoTicket == [none |-> TRUE]

\* IpfsResponse::Response { token_uri } as serde serializes it (main.rs 19-29)
ResponseEnvelope(token_uri) == [response |-> [token_uri |-> token_uri]]

\* IpfsResponse::Error { msg } (main.rs 25-28)
ErrorEnvelope(msg) == [error |-> [msg |-> msg]]

Over(r) == pc[r] \in {"done", "panicked"}

Op(r, op, file) == [req |-> r, op |-> op, file |-> file]

Init ==
  /\ pc = [r \in Requests |-> "idle"]
  /\ ticket = [r \in Requests |-> NoTicket]
  /\ local = [r \in Requests |-> [started |-> FALSE]]
  /\ response = [r \in Requests |-> NoResponse]
  /\ fs = << >>
  /\ ipfs_log = {}
  /\ created = [r \in Requests |-> {}]
  /\ last_ops = << >>
  /\ ran_after = [r \in Requests |-> {}]

Nothing == << >>

\* A failed .expect(...): the task unwinds where it stands.  Nothing it
\* wrote is removed and no response body is produced.  `bound` are the
\* local variables bound in the step that panicked.
Panic(r, msg, files, ops, made, log, bound) ==
  /\ pc' = [pc EXCEPT ![r] = "panicked"]
  /\ local' = [local EXCEPT ![r] = [panic |-> msg] @@ bound @@ @]
  /\ fs' = files
  /\ last_ops' = ops
  /\ created' = [created EXCEPT ![r] = @ \cup made]
  /\ ipfs_log' = log
  /\ UNCHANGED << ticket, response, ran_after >>

\* The framework hands a deserialized Ticket to upload_match (main.rs 32),
\* which calls render, which starts the first download (ticket.rs 68).
Arrive(r, t) ==
  /\ pc[r] = "idle"
  /\ pc' = [pc EXCEPT ![r] = "fetch_home"]
  /\ ticket' = [ticket EXCEPT ![r] = t]
  /\ local' = [local EXCEPT ![r] = [started |-> TRUE]]
  /\ ran_after' = [ran_after EXCEPT ![r] = {q \in Requests : Over(q)}]
  /\ last_ops' = << >>
  /\ UNCHANGED << response, fs, ipfs_log, created >>

\* download_image of the home logo returns (ticket.rs 68-69, 222-238); the
\* task goes on to start the guest logo's download (ticket.rs 70).
HomeFetched(r, out) ==
  /\ pc[r] = "fetch_home"
  /\ IF ~out.ok
       THEN Panic(r, "should download an image", fs, << >>, {}, ipfs_log,
                  [home_fetch |-> out])
       ELSE LET path == LogoName(out.body)
            IN  /\ fs' = WriteFile(fs, path, out.body)
                /\ local' = [local EXCEPT ![r] =
                               [home_fetch |-> out,
                                home_team_logo_file_path |-> path] @@ @]
                /\ created' = [created EXCEPT ![r] = @ \cup {path}]
                /\ last_ops' = << Op(r, "write", path) >>
                /\ pc' = [pc EXCEPT ![r] = "fetch_guest"]
                /\ UNCHANGED << ticket, response, ipfs_log, ran_after >>

(***************************************************************************)
(* render from the guest download's return to its own return (ticket.rs    *)
(* 70-174), in the order of the source.  Each stage takes and gives a      *)
(* record: panic (the message of the .expect that failed, "" when none     *)
(* did), files (the working directory), ops (the file operations made),    *)
(* made (the names written) and the local variables bound so far.  A stage *)
(* after a panic does nothing.                                             *)
(***************************************************************************)
Stopped(st, msg) == [panic |-> msg] @@ st

\* download_image 232-237 for the guest logo
render_write_guest(r, files, home_path, body) ==
  [panic |-> "",
   files |-> WriteFile(files, LogoName(body), body),
   ops |-> << Op(r, "write", LogoName(body)) >>,
   made |-> {LogoName(body)},
   home_path |-> home_path,
   guest_path |-> LogoName(body)]

\* ticket.rs 73-82: open and decode both logo files
render_decode(r, st) ==
  IF st.panic # "" THEN st
  ELSE IF ~FileExists(st.files, st.home_path)
    THEN Stopped(st, "should open a home team logo")
  ELSE IF ~Decode(st.files[st.home_path]).ok
    THEN Stopped([ops |-> st.ops \o << Op(r, "read", st.home_path) >>] @@ st,
                 "should be valid image")
  ELSE IF ~Decode(st.files[st.guest_path]).ok
    THEN Stopped([ops |-> st.ops \o << Op(r, "read", st.home_path),
                                       Op(r, "read", st.guest_path) >>] @@ st,
                 "should be valid image")
  ELSE [ops |-> st.ops \o << Op(r, "read", st.home_path),
                             Op(r, "read", st.guest_path) >>,
        home_team_logo |-> Decode(st.files[st.home_path]),
        guest_team_logo |-> Decode(st.files[st.guest_path])] @@ st

\* ticket.rs 84-95: the score and date texts
render_texts(t, st) ==
  IF st.panic # "" THEN st
  ELSE IF ~render_date(t).some
    THEN Stopped(st, "should be valid timestamp")
  ELSE [score |-> render_score(t), date |-> render_date(t).text] @@ st

\* ticket.rs 101-148: the positions of the pictures and texts.  A build
\* with overflow checks panics at the first subtraction that overflows.
render_positions(st, overflow_checks) ==
  IF st.panic # "" THEN st
  ELSE IF /\ overflow_checks
          /\ \/ HomePlacement(st.home_team_logo).y.overflow
             \/ ScorePosition(st.score).x.overflow
             \/ GuestPlacement(st.guest_team_logo).x.overflow
             \/ GuestPlacement(st.guest_team_logo).y.overflow
    THEN Stopped(st, "attempt to subtract with overflow")
  ELSE [home_at |-> HomePlacement(st.home_team_logo),
        score_at |-> ScorePosition(st.score),
        date_at |-> DatePosition,
        guest_at |-> GuestPlacement(st.guest_team_logo)] @@ st

\* ticket.rs 97-166: compose the canvas from the logo files and save it
render_save(r, t, st) ==
  IF st.panic # "" THEN st
  ELSE [files |-> WriteFile(st.files, ImageName(t),
                    ComposedImage(st.files[st.home_path],
                                  st.files[st.guest_path],
                                  st.home_team_logo, st.guest_team_logo,
                                  st.score, st.date)),
        ops |-> st.ops \o << Op(r, "write", ImageName(t)) >>,
        made |-> st.made \cup {ImageName(t)},
        image_name |-> ImageName(t)] @@ st

\* (the home logo file left in place)
render_remove_home_skipped(r, st) == st

\* ticket.rs 168-169: remove the home logo file
render_remove_home(r, st) ==
  IF st.panic # "" THEN st
  ELSE IF ~FileExists(st.files, st.home_path)
    THEN Stopped(st, "should be able to remove a file")
  ELSE [files |-> RemoveFile(st.files, st.home_path),
        ops |-> st.ops \o << Op(r, "remove", st.home_path) >>] @@ st

\* ticket.rs 171-172: remove the guest logo file
render_remove_guest(r, st) ==
  IF st.panic # "" THEN st
  ELSE IF ~FileExists(st.files, st.guest_path)
    THEN Stopped(st, "should be able to remove a file")
  ELSE [files |-> RemoveFile(st.files, st.guest_path),
        ops |-> st.ops \o << Op(r, "remove", st.guest_path) >>] @@ st

\* The stages in sequence.  Each stage's result is computed once, as the
\* element of a one-element set, before the next stage reads it.
Only(S) == CHOOSE x \in S : TRUE

render_rest(r, t, files, home_path, body, overflow_checks) ==
  Only({ render_remove_guest(r, s6) : s6 \in
       { render_remove_home(r, s5) : s5 \in
       { render_save(r, t, s4) : s4 \in
       { render_positions(s3, overflow_checks) : s3 \in
       { render_texts(t, s2) : s2 \in
       { render_decode(r, s1) : s1 \in
       { render_write_guest(r, files, home_path, body) }}}}}}})

\* download_image of the guest logo returns (ticket.rs 70-71); render runs
\* to its end (ticket.rs 73-174) and upload_match opens the composed image
\* and starts the first add (main.rs 37-41).
GuestFetched(r, out) ==
  /\ pc[r] = "fetch_guest"
  /\ IF ~out.ok
       THEN Panic(r, "should download an image", fs, << >>, {}, ipfs_log,
                  [guest_fetch |-> out])
       ELSE
       \E overflow_checks \in BOOLEAN :
       \E res \in {render_rest(r, ticket[r], fs,
                               local[r].home_team_logo_file_path, out.body,
                               overflow_checks)} :
         IF res.panic # ""
           THEN Panic(r, res.panic, res.files, res.ops, res.made, ipfs_log,
                      [guest_fetch |-> out])
           ELSE /\ fs' = res.files
                /\ local' = [local EXCEPT ![r] =
                     [guest_fetch |-> out,
                      guest_team_logo_file_path |-> res.guest_path,
                      render_score |-> res.score,
                      render_date |-> res.date,
                      image_name |-> res.image_name,
                      image |-> res.files[res.image_name]] @@ @]
                /\ created' = [created EXCEPT ![r] = @ \cup res.made]
                /\ last_ops' = res.ops \o << Op(r, "read", res.image_name) >>
                /\ pc' = [pc EXCEPT ![r] = "add_image"]
                /\ UNCHANGED << ticket, response, ipfs_log, ran_after >>

\* What the storage client reads from a File opened earlier: the file's
\* content at the open or, when the file was rewritten in place while the
\* add was in flight, its content now.
Uploaded(name, at_open) ==
  {at_open} \cup (IF FileExists(fs, name) THEN {fs[name]} ELSE {})

\* (the address of another request's add in place of this request's)
TokenImageUri_stale(r, image_hash) ==
  IF \E a \in ipfs_log : a.req # r
    THEN GatewayUrl((CHOOSE a \in ipfs_log : a.req # r).hash)
    ELSE GatewayUrl(image_hash)

\* main.rs 47: the image URI handed to make_token
TokenImageUri(r, image_hash) == GatewayUrl(image_hash)

\* make_token (ticket.rs 177-219) on the files `files`
make_token(r, t, files, image_uri) ==
  IF ~make_token_date(t).some
    THEN [panic |-> "should be valid timestamp", files |-> files,
          ops |-> << >>, made |-> {}]
  ELSE
    Only({ [panic |-> "",
            files |-> WriteFile(files, TokenFileName(token), token),
            ops |-> << Op(r, "write", TokenFileName(token)) >>,
            made |-> {TokenFileName(token)},
            raw_token |-> RawToken(t, image_uri, make_token_date(t).text,
                                   make_token_score(t)),
            token |-> token,
            file_name |-> TokenFileName(token),
            score |-> make_token_score(t),
            date |-> make_token_date(t).text]
           : token \in { SerializeToken(RawToken(t, image_uri,
                                                 make_token_date(t).text,
                                                 make_token_score(t))) } })

\* The record of a completed add in the history
Added(r, step, bytes, out) ==
  [req |-> r, step |-> step, bytes |-> bytes, ok |-> out.ok, hash |-> out.hash]

\* .expect("should be able to deploy to aws") on the first add (main.rs
\* 40-42) and on the second (main.rs 52-54): the task goes on only with Ok
\* (the add's error dropped, as unwrap_or_default would)
ImageAddSucceeded_ignored(out) == TRUE

ImageAddSucceeded(out) == out.ok

\* (the second add's error dropped in the same way)
TokenAddSucceeded_ignored(out) == TRUE

TokenAddSucceeded(out) == out.ok

\* The first add returns (main.rs 40-42): the image file is removed, the
\* token is made and opened, and the second add starts (main.rs 44-53).
ImageAdded(r, out) ==
  /\ pc[r] = "add_image"
  /\ \E bytes \in Uploaded(local[r].image_name, local[r].image) :
     IF ~ImageAddSucceeded(out)
       THEN Panic(r, "should be able to deploy to aws", fs, << >>, {},
                  ipfs_log \cup {Added(r, "image", bytes, out)}, Nothing)
     ELSE IF ~FileExists(fs, local[r].image_name)
       THEN Panic(r, "should be able to remove a file", fs, << >>, {},
                  ipfs_log \cup {Added(r, "image", bytes, out)}, Nothing)
     ELSE
       \E res \in {make_token(r, ticket[r], RemoveFile(fs, local[r].image_name),
                              TokenImageUri(r, out.hash))} :
         IF res.panic # ""
           THEN Panic(r, res.panic, res.files,
                      << Op(r, "remove", local[r].image_name) >> \o res.ops,
                      res.made,
                      ipfs_log \cup {Added(r, "image", bytes, out)}, Nothing)
           ELSE /\ fs' = res.files
                /\ local' = [local EXCEPT ![r] =
                     [image_hash |-> out.hash,
                      make_token_score |-> res.score,
                      make_token_date |-> res.date,
                      raw_token |-> res.raw_token,
                      token_name |-> res.file_name,
                      token |-> res.token] @@ @]
                /\ ipfs_log' = ipfs_log \cup {Added(r, "image", bytes, out)}
                /\ created' = [created EXCEPT ![r] = @ \cup res.made]
                /\ last_ops' = << Op(r, "remove", local[r].image_name) >>
                                 \o res.ops
                                 \o << Op(r, "read", res.file_name) >>
                /\ pc' = [pc EXCEPT ![r] = "add_token"]
                /\ UNCHANGED << ticket, response, ran_after >>

\* (the first add's address in place of the second's)
SuccessResponse_of_image(r, image_hash, token_hash) ==
  ResponseEnvelope(GatewayUrl(image_hash))

\* main.rs 59-61: the response of a request whose two adds returned
SuccessResponse(r, image_hash, token_hash) ==
  ResponseEnvelope(GatewayUrl(token_hash))

\* The second add returns (main.rs 52-54): the token file is removed and
\* the response is sent (main.rs 56-68).
TokenAdded(r, out) ==
  /\ pc[r] = "add_token"
  /\ \E bytes \in Uploaded(local[r].token_name, local[r].token) :
     IF ~TokenAddSucceeded(out)
       THEN Panic(r, "should be able to deploy to aws", fs, << >>, {},
                  ipfs_log \cup {Added(r, "token", bytes, out)}, Nothing)
     ELSE IF ~FileExists(fs, local[r].token_name)
       THEN Panic(r, "should be able to remove a file", fs, << >>, {},
                  ipfs_log \cup {Added(r, "token", bytes, out)}, Nothing)
       ELSE /\ fs' = RemoveFile(fs, local[r].token_name)
            /\ local' = [local EXCEPT ![r] = [token_hash |-> out.hash] @@ @]
            /\ response' = [response EXCEPT ![r] =
                 SuccessResponse(r, local[r].image_hash, out.hash)]
            /\ ipfs_log' = ipfs_log \cup {Added(r, "token", bytes, out)}
            /\ last_ops' = << Op(r, "remove", local[r].token_name) >>
            /\ pc' = [pc EXCEPT ![r] = "done"]
            /\ UNCHANGED << ticket, created, ran_after >>

Next ==
  \/ \E r \in Requests, t \in Tickets : Arrive(r, t)
  \/ \E r \in Requests, out \in FetchOutcomes : HomeFetched(r, out)
  \/ \E r \in Requests, out \in FetchOutcomes : GuestFetched(r, out)
  \/ \E r \in Requests, out \in AddOutcomes : ImageAdded(r, out)
  \/ \E r \in Requests, out \in AddOutcomes : TokenAdded(r, out)

Spec == Init /\ [][Next]_vars

(***************************************************************************)
(* The texts of render and make_token over a wide range of tickets: a      *)
(* second specification, in which request 1 carries any ticket of          *)
(* TextTickets and the two functions are applied to it.                    *)
(***************************************************************************)
MaxScore == 3

MaxDay == 800

MaxU64 == << 1844, 6744, 737, 955, 1615 >>

\* 253402300800, the first second of the year 10000
Year10000 == << 0, 0, 2534, 230, 800 >>

TextScores ==
  { U64(n) : n \in 0..MaxScore }
    \cup { U64(10), U64(999), U64(10000), U64(2147483647),
           << 0, 1, 0, 20, 3 >>, MaxU64 }

TextDates ==
  { U64(d * 86400 + 3599) : d \in 0..MaxDay }
    \cup { U64(0), U64(59), U64(60), U64(86399), U64(86400),
           U64(951782399), U64(951782400), U64(951868800),
           U64(1700000000), U64(2147483647),
           << 0, 0, 41, 754, 2399 >>, << 0, 0, 41, 754, 2400 >>,
           LimbsSub(Year10000, U64(1)), Year10000,
           << 0, 0, 9999, 9999, 9999 >>, Two63, MaxU64 }

TextTickets ==
  { Ticket("t", TeamA, TeamB, d, Active) : d \in TextDates }
    \cup { Ticket("t", TeamA, TeamB, U64(1700000000), Finished(h, a)) :
             h \in TextScores, a \in TextScores }

InitTexts ==
  /\ pc = [r \in Requests |-> IF r = 1 THEN "texts" ELSE "idle"]
  /\ \E t \in TextTickets :
       ticket = [r \in Requests |-> IF r = 1 THEN t ELSE NoTicket]
  /\ local = [r \in Requests |-> [started |-> r = 1]]
  /\ response = [r \in Requests |-> NoResponse]
  /\ fs = << >>
  /\ ipfs_log = {}
  /\ created = [r \in Requests |-> {}]
  /\ last_ops = << >>
  /\ ran_after = [r \in Requests |-> {}]

\* render's texts (ticket.rs 84-95) on the request's ticket
CallRenderTexts(r) ==
  /\ pc[r] = "texts"
  /\ "render_called" \notin DOMAIN local[r]
  /\ \E res \in {render_texts(ticket[r], [panic |-> ""])} :
       local' = [local EXCEPT ![r] =
         (IF res.panic # ""
            THEN [render_called |-> TRUE, render_panic |-> res.panic]
            ELSE [render_called |-> TRUE, render_score |-> res.score,
                  render_date |-> res.date]) @@ @]
  /\ UNCHANGED << pc, ticket, response, fs, ipfs_log, created, last_ops,
                  ran_after >>

\* make_token (ticket.rs 177-219) on the request's ticket and an address
CallMakeToken(r, hash) ==
  /\ pc[r] = "texts"
  /\ "make_token_called" \notin DOMAIN local[r]
  /\ \E res \in {make_token(r, ticket[r], fs, TokenImageUri(r, hash))} :
       /\ local' = [local EXCEPT ![r] =
            (IF res.panic # ""
               THEN [make_token_called |-> TRUE,
                     make_token_panic |-> res.panic]
               ELSE [make_token_called |-> TRUE,
                     make_token_score |-> res.score,
                     make_token_date |-> res.date,
                     raw_token |-> res.raw_token,
                     token_name |-> res.file_name,
                     token |-> res.token]) @@ @]
       /\ fs' = res.files
       /\ created' = [created EXCEPT ![r] = @ \cup res.made]
       /\ last_ops' = res.ops
  /\ UNCHANGED << pc, ticket, response, ipfs_log, ran_after >>

NextTexts ==
  \/ \E r \in Requests : CallRenderTexts(r)
  \/ \E r \in Requests, hash \in Hashes : CallMakeToken(r, hash)

SpecTexts == InitTexts /\ [][NextTexts]_vars

(***************************************************************************)
(* The positions and sizes render computes, over a range of logo sizes and *)
(* score lengths: a third specification, in which request 1 holds two      *)
(* decoded logos and a ticket and the layout of render is applied to them. *)
(***************************************************************************)
SideSpread == 3

\* the sides tried: small ones, the largest of this model, and the ones
\* around the points where a clamp or a subtraction changes behaviour
Around(c) == (c - SideSpread)..(c + SideSpread)

LogoWidths ==
  { 1, 100, 2047, 2147483647 }
    \cup Around(IMAGE_MAX_WIDTH)
    \cup Around(IMAGE_WIDTH - (IMAGE_WIDTH \div 12))

LogoHeights ==
  { 1, 100, 2147483647 }
    \cup Around(IMAGE_MAX_HEIGHT)
    \cup Around(IMAGE_HEIGHT + 2)

\* what decode() may give: into_rgba8() images with these sizes
LogoSizes ==
  { [ok |-> TRUE, width |-> w, height |-> 100] : w \in LogoWidths }
    \cup { [ok |-> TRUE, width |-> 100, height |-> h] : h \in LogoHeights }
    \cup { [ok |-> TRUE, width |-> 500, height |-> 600],
           [ok |-> TRUE, width |-> 2147483647, height |-> 2147483647] }

\* statuses whose score texts have 5, 24, 28, 29 and 43 characters
LayoutStatuses ==
  { Active,
    Finished(U64(0), U64(0)),
    Finished(MaxU64, U64(0)),
    Finished(<< 0, 0, 1000, 0, 0 >>, << 0, 1, 0, 20, 3 >>),
    Finished(<< 0, 1, 0, 20, 3 >>, << 0, 1, 0, 20, 3 >>),
    Finished(MaxU64, MaxU64) }

LayoutTickets ==
  { Ticket("t", TeamA, TeamB, U64(1700000000), st) : st \in LayoutStatuses }

InitLayout ==
  /\ pc = [r \in Requests |-> IF r = 1 THEN "layout" ELSE "idle"]
  /\ \E t \in LayoutTickets :
       ticket = [r \in Requests |-> IF r = 1 THEN t ELSE NoTicket]
  /\ \E home \in LogoSizes, guest \in LogoSizes :
       local = [r \in Requests |->
                  IF r = 1 THEN [started |-> TRUE, home_team_logo |-> home,
                                 guest_team_logo |-> guest]
                           ELSE [started |-> FALSE]]
  /\ response = [r \in Requests |-> NoResponse]
  /\ fs = << >>
  /\ ipfs_log = {}
  /\ created = [r \in Requests |-> {}]
  /\ last_ops = << >>
  /\ ran_after = [r \in Requests |-> {}]

\* render's positions and sizes (ticket.rs 84-87, 101-162) on the request's
\* logos and ticket
CallRenderPositions(r, overflow_checks) ==
  /\ pc[r] = "layout"
  /\ "positions_called" \notin DOMAIN local[r]
  /\ \E res \in {render_positions(
                    [panic |-> "",
                     home_team_logo |-> local[r].home_team_logo,
                     guest_team_logo |-> local[r].guest_team_logo,
                     score |-> render_score(ticket[r])],
                    overflow_checks)} :
       local' = [local EXCEPT ![r] =
         (IF res.panic # ""
            THEN [positions_called |-> TRUE, positions_panic |-> res.panic]
            ELSE [positions_called |-> TRUE,
                  render_score |-> res.score,
                  home_at |-> res.home_at, score_at |-> res.score_at,
                  date_at |-> res.date_at, guest_at |-> res.guest_at]) @@ @]
  /\ UNCHANGED << pc, ticket, response, fs, ipfs_log, created, last_ops,
                  ran_after >>

NextLayout ==
  \E r \in Requests, overflow_checks \in BOOLEAN :
    CallRenderPositions(r, overflow_checks)

SpecLayout == InitLayout /\ [][NextLayout]_vars

(***************************************************************************)
(* Properties of the pipeline.                                             *)
(***************************************************************************)
\* the adds of request r's step (image or token) that the client completed
AddsOf(r, step) == { a \in ipfs_log : a.req = r /\ a.step = step }

Has(r, field) == field \in DOMAIN local[r]

\* no request other than r has arrived
Alone(r) == \A q \in Requests \ {r} : pc[q] = "idle"

\* C1: the image field of every token document built is the gateway URL of
\* the address the storage client returned for that same request's image
\* add, and of no other address.
C1_TokenImageIsOwnImageAddress ==
  \A r \in Requests :
    Has(r, "raw_token") =>
      /\ \E a \in AddsOf(r, "image") : a.ok
      /\ \A a \in AddsOf(r, "image") :
           local[r].raw_token.image = "https://ipfs.io/ipfs/" \o a.hash
      /\ local[r].raw_token.image # "https://ipfs.io/ipfs/"
      /\ local[r].raw_token.image # ""

\* two requests have built their tokens from different image addresses
C1_Witness ==
  \E r, q \in Requests :
    /\ r # q
    /\ Has(r, "raw_token") /\ Has(q, "raw_token")
    /\ local[r].image_hash # local[q].image_hash

\* C2: a request's token is built, and its token add started or completed,
\* only after its image add returned successfully; the token is added only
\* after it was built.
C2_ImageAddedBeforeToken ==
  \A r \in Requests :
    /\ (Has(r, "raw_token") \/ pc[r] = "add_token" \/ AddsOf(r, "token") # {})
         => \E a \in AddsOf(r, "image") : a.ok
    /\ (pc[r] = "add_token" \/ AddsOf(r, "token") # {})
         => Has(r, "raw_token") /\ Has(r, "token_name")

\* a request has passed all three steps
C2_Witness ==
  \E r \in Requests :
    /\ pc[r] = "done"
    /\ AddsOf(r, "image") # {} /\ AddsOf(r, "token") # {}

\* both logo fetches of r returned images that decode
ValidLogos(r) ==
  /\ Has(r, "home_fetch") /\ local[r].home_fetch.ok
  /\ Has(r, "guest_fetch") /\ local[r].guest_fetch.ok
  /\ Decode(local[r].home_fetch.body).ok
  /\ Decode(local[r].guest_fetch.body).ok

\* the files r wrote that are still there
LeftBehind(r) == created[r] \cap DOMAIN fs

\* C3: a single request whose logos are valid images (equal or not), whose
\* timestamp is valid and whose adds succeed ends with the success envelope
\* and leaves none of its temporary files.
C3_ValidRequestSucceedsAndCleansUp ==
  \A r \in Requests :
    ( /\ Alone(r)
      /\ Over(r)
      /\ ValidLogos(r)
      /\ render_date(ticket[r]).some
      /\ \A a \in AddsOf(r, "image") \cup AddsOf(r, "token") : a.ok )
    => /\ pc[r] = "done"
       /\ "response" \in DOMAIN response[r]
       /\ LeftBehind(r) = {}

\* C4: a request that failed has left none of the files it wrote.
C4_FailedRequestLeavesNoFile ==
  \A r \in Requests : pc[r] = "panicked" => LeftBehind(r) = {}

\* C5: a request that is over has a response, and a failed one has the
\* error envelope.
C5_FailureGivesErrorEnvelope ==
  \A r \in Requests :
    /\ Over(r) => response[r] # NoResponse
    /\ pc[r] = "panicked" => "error" \in DOMAIN response[r]

\* C6: the token_uri of a success envelope is the gateway URL of the
\* address the second add (of the token) returned, and the envelope is sent
\* only after both adds succeeded.
C6_TokenUriIsTokenAddress ==
  \A r \in Requests :
    "response" \in DOMAIN response[r] =>
      /\ \E a \in AddsOf(r, "image") : a.ok
      /\ \E b \in AddsOf(r, "token") : b.ok
      /\ \A b \in AddsOf(r, "token") :
           response[r] =
             [response |-> [token_uri |-> "https://ipfs.io/ipfs/" \o b.hash]]

\* a request has succeeded whose two adds returned different addresses
C6_Witness ==
  \E r \in Requests :
    /\ pc[r] = "done"
    /\ local[r].image_hash # local[r].token_hash

\* the storage client answered equal bytes equally
StubDeterministic ==
  \A a, b \in ipfs_log : a.bytes = b.bytes => a.ok = b.ok /\ a.hash = b.hash

\* what the logo URLs answered to r
Fetches(r) ==
  [f \in {"home_fetch", "guest_fetch"} \cap DOMAIN local[r] |-> local[r][f]]

\* r2 ran after r1 was over, no other request ran, and both were given the
\* same ticket content, the same logo answers and a deterministic stub
RanTwice(r1, r2) ==
  /\ r1 \in ran_after[r2]
  /\ Over(r2)
  /\ \A q \in Requests \ {r1, r2} : pc[q] = "idle"
  /\ ticket[r1] = ticket[r2]
  /\ Fetches(r1) = Fetches(r2)
  /\ StubDeterministic

\* C9: the second of two runs, one after the other, on the same ticket
\* content, logo bytes and deterministic stub ends as the first did, with
\* the same image file name, token document, token file name and response.
C9_SecondRunRepeatsFirst ==
  \A r1, r2 \in Requests :
    RanTwice(r1, r2) =>
      /\ pc[r1] = pc[r2]
      /\ local[r1] = local[r2]
      /\ response[r1] = response[r2]

\* two such runs that both succeeded
C9_Witness ==
  \E r1, r2 \in Requests :
    /\ RanTwice(r1, r2)
    /\ pc[r1] = "done" /\ pc[r2] = "done"
    /\ Has(r2, "image_name") /\ Has(r2, "token") /\ Has(r2, "token_name")

\* C10: between a request's write of its composed image file and its
\* removal of it, no other request writes, reads or removes that file.
C10_ImageFileExclusive ==
  \A r \in Requests :
    pc[r] = "add_image" =>
      \A i \in DOMAIN last_ops :
        last_ops[i].req # r => last_ops[i].file # local[r].image_name

(***************************************************************************)
(* Properties of the texts (under SpecTexts).                              *)
(***************************************************************************)
\* a u64 in decimal, by TLC's own rendering of integers
ExpectedDecimal(v) ==
  IF LimbsFitI32(v) THEN ToString(LimbsToInt(v))
  ELSE IF v = MaxU64 THEN "18446744073709551615"
  ELSE IF v = << 0, 1, 0, 20, 3 >> THEN "1000000200003"
  ELSE "?"

ExpectedScore(status) ==
  IF status.tag = "active" THEN "0 - 0"
  ELSE ExpectedDecimal(status.f_0) \o " - " \o ExpectedDecimal(status.f_1)

\* C7: the score text is "0 - 0" for Active and "{home} - {away}" in
\* decimal for Finished, and render and make_token give the same text.
C7_ScoreText ==
  \A r \in Requests :
    /\ Has(r, "render_score")
         => local[r].render_score = ExpectedScore(ticket[r].status)
    /\ Has(r, "make_token_score")
         => local[r].make_token_score = ExpectedScore(ticket[r].status)
    /\ Has(r, "render_score") /\ Has(r, "make_token_score")
         => local[r].render_score = local[r].make_token_score

\* both functions have given the score text of a finished match with two
\* different scores, one of them of more than one digit
C7_Witness ==
  \E r \in Requests :
    /\ Has(r, "render_score") /\ Has(r, "make_token_score")
    /\ ticket[r].status = Finished(U64(10), U64(3))
    /\ local[r].render_score = "10 - 3"

\* The UTC calendar, from a table of month lengths.
IsLeap(y) == (y % 4 = 0 /\ y % 100 # 0) \/ y % 400 = 0

LeapsBefore(y) == (y - 1) \div 4 - (y - 1) \div 100 + (y - 1) \div 400

\* the days from 1970-01-01 to the first day of year y
DaysBeforeYear(y) == 365 * (y - 1970) + LeapsBefore(y) - LeapsBefore(1970)

MonthLength(y, m) ==
  IF m = 2 THEN (IF IsLeap(y) THEN 29 ELSE 28)
  ELSE IF m \in {4, 6, 9, 11} THEN 30 ELSE 31

RECURSIVE DaysBeforeMonth(_, _)
DaysBeforeMonth(y, m) ==
  IF m = 1 THEN 0 ELSE DaysBeforeMonth(y, m - 1) + MonthLength(y, m - 1)

\* the calendar date of day d (d >= 0, counted from 1970-01-01)
CalendarDate(d) ==
  LET y == CHOOSE yy \in (1970 + d \div 366)..(1970 + d \div 365) :
             DaysBeforeYear(yy) <= d /\ d < DaysBeforeYear(yy + 1)
      n == d - DaysBeforeYear(y)
      m == CHOOSE mm \in 1..12 :
             /\ DaysBeforeMonth(y, mm) <= n
             /\ n < DaysBeforeMonth(y, mm) + MonthLength(y, mm)
  IN  [year |-> y, month |-> m, day |-> n - DaysBeforeMonth(y, m) + 1]

TwoDigits(n) == IF n < 10 THEN "0" \o ToString(n) ELSE ToString(n)

FourDigits(n) ==
  IF n < 10 THEN "000" \o ToString(n)
  ELSE IF n < 100 THEN "00" \o ToString(n)
  ELSE IF n < 1000 THEN "0" \o ToString(n)
  ELSE ToString(n)

\* a timestamp from 0 up to the last second of the year 9999
FourDigitYear(v) == LimbsLess(v, Year10000)

\* "YYYY-MM-DD HH:MM" of the timestamp v in UTC, seconds dropped
ExpectedDate(v) ==
  LET dr == LimbsDiv(v, 86400)
      c  == CalendarDate(LimbsToInt(dr.q))
  IN  FourDigits(c.year) \o "-" \o TwoDigits(c.month) \o "-"
        \o TwoDigits(c.day) \o " " \o TwoDigits(dr.r \div 3600) \o ":"
        \o TwoDigits((dr.r % 3600) \div 60)

\* C8 as claimed: every timestamp that is given a date text is given the
\* 16 characters "YYYY-MM-DD HH:MM" of its UTC calendar minute.
C8_EveryDateTextIsCalendarMinute ==
  \A r \in Requests :
    /\ Has(r, "render_date") =>
         /\ Len(local[r].render_date) = 16
         /\ FourDigitYear(ticket[r].date)
              => local[r].render_date = ExpectedDate(ticket[r].date)
    /\ Has(r, "make_token_date") =>
         /\ Len(local[r].make_token_date) = 16
         /\ FourDigitYear(ticket[r].date)
              => local[r].make_token_date = ExpectedDate(ticket[r].date)
    /\ Has(r, "render_date") /\ Has(r, "make_token_date")
         => local[r].render_date = local[r].make_token_date

\* C8, amended: for every timestamp from 0 up to the last second of the
\* year 9999, render and make_token both give the text "YYYY-MM-DD HH:MM"
\* of its UTC calendar minute, and 1700000000 gives "2023-11-14 22:13".
C8_DateTextUpToYear9999 ==
  \A r \in Requests :
    local[r].started /\ FourDigitYear(ticket[r].date) =>
      /\ Has(r, "render_called") =>
           /\ Has(r, "render_date")
           /\ local[r].render_date = ExpectedDate(ticket[r].date)
           /\ Len(local[r].render_date) = 16
      /\ Has(r, "make_token_called") =>
           /\ Has(r, "make_token_date")
           /\ local[r].make_token_date = ExpectedDate(ticket[r].date)
      /\ Has(r, "render_date") /\ Has(r, "make_token_date")
           => local[r].render_date = local[r].make_token_date
      /\ Has(r, "render_date") /\ ticket[r].date = U64(1700000000)
           => local[r].render_date = "2023-11-14 22:13"

\* both functions have given the date text of 1700000000
C8_Witness ==
  \E r \in Requests :
    /\ Has(r, "render_date") /\ Has(r, "make_token_date")
    /\ ticket[r].date = U64(1700000000)
    /\ local[r].render_date = "2023-11-14 22:13"

(***************************************************************************)
(* Properties of the pipeline's steps and files (under Spec).              *)
(***************************************************************************)
\* one of r's logo downloads returned an error
FetchFailed(r) ==
  \/ Has(r, "home_fetch") /\ ~local[r].home_fetch.ok
  \/ Has(r, "guest_fetch") /\ ~local[r].guest_fetch.ok

\* C11: after a step of a request failed no later step of it runs: after a
\* failed logo fetch nothing is composed, added or built; after a failed
\* image add no token is built or added; after a failed token add no success
\* envelope is sent.
C11_NoStepAfterFailure ==
  \A r \in Requests :
    /\ FetchFailed(r) =>
         /\ pc[r] = "panicked"
         /\ ~Has(r, "image_name") /\ ~Has(r, "image")
         /\ ImageName(ticket[r]) \notin created[r]
         /\ ~Has(r, "raw_token") /\ ~Has(r, "token_name")
         /\ AddsOf(r, "image") = {} /\ AddsOf(r, "token") = {}
         /\ response[r] = NoResponse
    /\ (\E a \in AddsOf(r, "image") : ~a.ok) =>
         /\ pc[r] = "panicked"
         /\ ~Has(r, "raw_token") /\ ~Has(r, "token_name")
         /\ AddsOf(r, "token") = {}
         /\ response[r] = NoResponse
    /\ (\E a \in AddsOf(r, "token") : ~a.ok) =>
         /\ pc[r] = "panicked"
         /\ response[r] = NoResponse

\* one request's token add has failed and another's guest logo fetch has
C11_Witness ==
  \E r, q \in Requests :
    /\ r # q
    /\ \E a \in AddsOf(r, "token") : ~a.ok
    /\ Has(q, "guest_fetch") /\ ~local[q].guest_fetch.ok
    /\ pc[r] = "panicked" /\ pc[q] = "panicked"

\* the place of the file operation o in the last step, 0 when it made none
Pos(o) ==
  IF \E i \in DOMAIN last_ops : last_ops[i] = o
    THEN CHOOSE i \in DOMAIN last_ops : last_ops[i] = o
    ELSE 0

\* the last step was a step of request r
LastStepOf(r) == last_ops # << >> /\ last_ops[1].req = r

\* C12: a request deletes each temporary file once it is consumed: both logo
\* files after the composed image is written and before the image add
\* starts; the composed image after the image add succeeded and before the
\* token file is created; the token file after the token add succeeded and
\* before the response.
C12_FilesDeletedOnceConsumed ==
  \A r \in Requests :
    /\ (pc[r] = "add_image" /\ LastStepOf(r)) =>
         /\ 0 < Pos(Op(r, "write", local[r].image_name))
         /\ Pos(Op(r, "write", local[r].image_name))
              < Pos(Op(r, "remove", local[r].home_team_logo_file_path))
         /\ Pos(Op(r, "write", local[r].image_name))
              < Pos(Op(r, "remove", local[r].guest_team_logo_file_path))
         /\ Pos(Op(r, "remove", local[r].home_team_logo_file_path))
              < Pos(Op(r, "read", local[r].image_name))
         /\ Pos(Op(r, "remove", local[r].guest_team_logo_file_path))
              < Pos(Op(r, "read", local[r].image_name))
         /\ AddsOf(r, "image") = {}
         /\ local[r].home_team_logo_file_path \notin DOMAIN fs
         /\ local[r].guest_team_logo_file_path \notin DOMAIN fs
    /\ (pc[r] = "add_token" /\ LastStepOf(r)) =>
         /\ \E a \in AddsOf(r, "image") : a.ok
         /\ 0 < Pos(Op(r, "remove", local[r].image_name))
         /\ Pos(Op(r, "remove", local[r].image_name))
              < Pos(Op(r, "write", local[r].token_name))
         /\ AddsOf(r, "token") = {}
         /\ local[r].image_name \notin DOMAIN fs
    /\ (pc[r] = "done" /\ LastStepOf(r)) =>
         /\ \E a \in AddsOf(r, "token") : a.ok
         /\ 0 < Pos(Op(r, "remove", local[r].token_name))
         /\ local[r].token_name \notin DOMAIN fs
         /\ "response" \in DOMAIN response[r]
    /\ (pc[r] \in {"idle", "fetch_home", "fetch_guest", "add_image",
                    "add_token"}) => response[r] = NoResponse

\* a request has succeeded: its last step removed its token file
C12_Witness ==
  \E r \in Requests :
    /\ pc[r] = "done" /\ LastStepOf(r)
    /\ local[r].home_team_logo_file_path # local[r].guest_team_logo_file_path
    /\ Pos(Op(r, "remove", local[r].token_name)) = 1

\* the answers r's logo downloads got whose status is outside 200..299
Non2xxFetches(r) ==
  { f \in {"home_fetch", "guest_fetch"} \cap DOMAIN local[r] :
      local[r][f].ok /\ local[r][f].status \notin 200..299 }

\* C13: a logo fetch answered with a non-2xx status fails like a transport
\* error: the request stops, the body is written to no file and no path is
\* returned, so the body is never decoded or composed as a logo.
C13_Non2xxFetchFails ==
  \A r \in Requests :
    /\ "home_fetch" \in Non2xxFetches(r) =>
         /\ pc[r] = "panicked"
         /\ ~Has(r, "home_team_logo_file_path")
         /\ LogoName(local[r].home_fetch.body) \notin created[r]
    /\ "guest_fetch" \in Non2xxFetches(r) =>
         /\ pc[r] = "panicked"
         /\ ~Has(r, "guest_team_logo_file_path")
         /\ ~Has(r, "image")

(***************************************************************************)
(* Properties of the layout (under SpecLayout).                            *)
(***************************************************************************)
Min(a, b) == IF a < b THEN a ELSE b

\* C14: every logo of size (w, h) is placed at the size (min(w, 384),
\* min(h, 512)): never outside the 384x512 box, never larger than the
\* source, and by the same rule for the home and the guest logo.
C14_PlacedSizeIsClampedSize ==
  \A r \in Requests :
    Has(r, "home_at") =>
      /\ local[r].home_at.w = Min(local[r].home_team_logo.width, 384)
      /\ local[r].home_at.h = Min(local[r].home_team_logo.height, 512)
      /\ local[r].guest_at.w = Min(local[r].guest_team_logo.width, 384)
      /\ local[r].guest_at.h = Min(local[r].guest_team_logo.height, 512)
      /\ local[r].home_at.w <= 384 /\ local[r].home_at.h <= 512
      /\ local[r].guest_at.w <= 384 /\ local[r].guest_at.h <= 512
      /\ local[r].home_at.w <= local[r].home_team_logo.width
      /\ local[r].home_at.h <= local[r].home_team_logo.height
      /\ local[r].guest_at.w <= local[r].guest_team_logo.width
      /\ local[r].guest_at.h <= local[r].guest_team_logo.height
      /\ (local[r].home_team_logo.width = local[r].guest_team_logo.width
            => local[r].home_at.w = local[r].guest_at.w)
      /\ (local[r].home_team_logo.height = local[r].guest_team_logo.height
            => local[r].home_at.h = local[r].guest_at.h)

\* a home logo wider than the box and a guest logo higher than it, and a
\* small one, have been placed
C14_Witness ==
  \E r \in Requests :
    /\ Has(r, "home_at")
    /\ local[r].home_team_logo.width = 385
    /\ local[r].home_at.w = 384 /\ local[r].home_at.h = 100
    /\ local[r].guest_team_logo.height = 513
    /\ local[r].guest_at.h = 512 /\ local[r].guest_at.w = 100

\* C15: the guest logo as placed is right-aligned at 1/12 of the canvas
\* width from the right edge: its x plus its placed width is 2048 - 2048/12,
\* as the home logo's x is 2048/12.
C15_GuestRightAligned ==
  \A r \in Requests :
    Has(r, "guest_at") =>
      /\ local[r].home_at.x = 2048 \div 12
      /\ ~local[r].guest_at.x.overflow
      /\ local[r].guest_at.x.value + local[r].guest_at.w
           = 2048 - (2048 \div 12)

\* C16: both logos as placed are vertically centred: y plus half of the
\* placed height is half of the canvas height, 512, to within one pixel.
C16_LogosVerticallyCentred ==
  \A r \in Requests :
    Has(r, "home_at") =>
      /\ ~local[r].home_at.y.overflow
      /\ local[r].home_at.y.value + (local[r].home_at.h \div 2) \in 511..513
      /\ ~local[r].guest_at.y.overflow
      /\ local[r].guest_at.y.value + (local[r].guest_at.h \div 2) \in 511..513

\* C18: no u32 subtraction that computes a position in render overflows,
\* whatever the logo sizes and the scores, so render does not panic there
\* and every position lies inside the 2048x1024 canvas.
C18_NoPositionUnderflows ==
  \A r \in Requests :
    Has(r, "positions_called") =>
      /\ ~Has(r, "positions_panic")
      /\ ~local[r].home_at.y.overflow
      /\ ~local[r].score_at.x.overflow
      /\ ~local[r].guest_at.x.overflow
      /\ ~local[r].guest_at.y.overflow
      /\ local[r].home_at.x \in 0..2047
      /\ local[r].home_at.y.value \in 0..1023
      /\ local[r].score_at.x.value \in 0..2047
      /\ local[r].score_at.y \in 0..1023
      /\ local[r].guest_at.x.value \in 0..2047
      /\ local[r].guest_at.y.value \in 0..1023

(***************************************************************************)
(* Properties of the token document (under Spec).                          *)
(***************************************************************************)
\* C17: every token document built has exactly the keys image, name,
\* description, external_link, animation_url and traits, with the name
\* "{host} vs {guest} ticket", the description "The match between {host}
\* and {guest} took place on {date}. The final score was {score}", null
\* external_link and animation_url and empty traits; the template stays
\* empty, so a later build carries nothing of an earlier one.
C17_TokenDocumentShape ==
  /\ TOKEN_JSON.image = "" /\ TOKEN_JSON.name = ""
  /\ TOKEN_JSON.description = ""
  /\ \A r \in Requests :
       Has(r, "raw_token") =>
         /\ DOMAIN local[r].raw_token
              = {"image", "name", "description", "external_link",
                 "animation_url", "traits"}
         /\ local[r].raw_token.name
              = ticket[r].host_team.name \o " vs "
                  \o ticket[r].guest_team.name \o " ticket"
         /\ local[r].raw_token.description
              = "The match between " \o ticket[r].host_team.name \o " and "
                  \o ticket[r].guest_team.name \o " took place on "
                  \o local[r].make_token_date \o ". The final score was "
                  \o local[r].make_token_score
         /\ local[r].raw_token.image
              = "https://ipfs.io/ipfs/" \o local[r].image_hash
         /\ local[r].raw_token.external_link = Null
         /\ local[r].raw_token.animation_url = Null
         /\ local[r].raw_token.traits = << >>
         /\ ticket[r].id = "m1" =>
              /\ local[r].raw_token.name = "A vs B ticket"
              /\ local[r].raw_token.description
                   = "The match between A and B took place on "
                       \o "2023-11-14 22:13. The final score was 2 - 2"
         /\ ticket[r].id = "m2" =>
              /\ local[r].raw_token.name = "B vs A ticket"
              /\ local[r].raw_token.description
                   = "The match between B and A took place on "
                       \o "2023-11-14 22:13. The final score was 0 - 0"

\* a token has been built for one ticket after one was built for another
C17_Witness ==
  \E r, q \in Requests :
    /\ q \in ran_after[r]
    /\ Has(q, "raw_token") /\ Has(r, "raw_token")
    /\ ticket[q].id = "m1" /\ ticket[r].id = "m2"

(***************************************************************************)
(* Properties of concurrent requests that share a logo (under Spec).       *)
(***************************************************************************)
\* every external call r has made so far succeeded: its logo URLs answered
\* 200 with images that decode, different for the two teams, and the
\* storage client answered each add with an address; its date is valid
AllCallsSucceeded(r) ==
  /\ local[r].started
  /\ render_date(ticket[r]).some
  /\ \A f \in DOMAIN Fetches(r) :
       /\ local[r][f].ok
       /\ local[r][f].status = 200
       /\ Decode(local[r][f].body).ok
  /\ (Has(r, "home_fetch") /\ Has(r, "guest_fetch"))
       => local[r].home_fetch.body # local[r].guest_fetch.body
  /\ \A a \in AddsOf(r, "image") \cup AddsOf(r, "token") : a.ok

\* a logo URL of r and one of q answered the same bytes
ShareLogo(r, q) ==
  \E f \in DOMAIN Fetches(r), g \in DOMAIN Fetches(q) :
    local[r][f].body = local[q][g].body

\* C19: two concurrent requests with different tickets that reference a
\* logo of the same bytes both go on to the success envelope when every
\* external call succeeds: neither fails on a logo file it downloaded.
C19_SharedLogoRequestsSucceed ==
  \A r, q \in Requests :
    ( /\ r # q
      /\ AllCallsSucceeded(r) /\ AllCallsSucceeded(q)
      /\ ticket[r] # ticket[q]
      /\ ShareLogo(r, q) )
    => pc[r] # "panicked" /\ pc[q] # "panicked"

====
